---- MODULE Spec2Model ----
(***************************************************************************)
(* Model of the tile data-resolution engine of osgEarth:                   *)
(*   - MapFrame::isCached            (src/src/osgEarth/MapFrame.cpp)       *)
(*   - TileBuilder::getDataProfile, the TileBuilder constructor, isValid   *)
(*     and readNode                  (src/src/osgEarth/TileBuilder.cpp)    *)
(*   - TileBuilder::createValidImage / createValidHeightField              *)
(* Each of the three parts has its own specification (CacheSpec,           *)
(* ProfileSpec, WalkSpec); the variables of the other parts stay at their  *)
(* idle values.                                                            *)
(***************************************************************************)
EXTENDS Integers, Sequences, FiniteSets, TLC

VARIABLES
    \* ---- MapFrame (isCached) ----
    mapState,            \* what _map.lock(map) / map->getCache() give
    _layers,             \* MapFrame::_layers
    cachedResult,        \* "off" | "none" (not called yet) | "true" | "false"
    consulted,           \* history: the checks the last isCached call made, in order
    \* ---- TileBuilder (profile reconciliation, validation) ----
    bpc,                 \* "off" | "new" | "built" | "aborted"
    mapProfile,          \* MapConfig::getProfile()
    csType,              \* MapConfig::getCoordinateSystemType()
    cfgImages,           \* MapConfig::getImageSources(): profile of each loadable source
    cfgHeights,          \* MapConfig::getHeightFieldSources()
    image_sources,       \* TileBuilder::image_sources
    heightfield_sources, \* TileBuilder::heightfield_sources
    _dataProfile,        \* TileBuilder::_dataProfile
    _profileComputed,    \* TileBuilder::_profileComputed
    added,               \* history: the two source lists as the constructor left them
    gdpReturns,          \* history: profiles returned by getDataProfile, in call order
    afterFirst,          \* history: the two source lists after the first getDataProfile
    validReturns,        \* history: values returned by isValid, in call order
    tilesBuilt,          \* history: createNode calls made by readNode
    ops,                 \* number of operations run on the builder
    \* ---- ancestor walk (createValidImage / createValidHeightField) ----
    wpc,                 \* "off" | "idle" | "parents" | "afterParents" | "return" | "done"
    wkind,               \* "image" | "heightfield"
    wdata,               \* keys at which the tile source produces data
    wkey,                \* the requested key
    wcur,                \* image_key / hf_key
    wraster,             \* image / hf
    wattempts,           \* history: keys passed to createImage / createHeightField
    wret,                \* what the function handed back to its caller
    \* ---- threads sharing one TileBuilder ----
    tpc,                 \* position of each thread
    titr,                \* each thread's iterator itr, as a position in the list
    bodyRuns,            \* history: runs of getDataProfile's body started so far
    \* ---- MapFrame (layer lists) ----
    fpc,                 \* "off" | "on"
    theMap,              \* the Map: alive, its layers, its data model revision
    frames               \* the MapFrame objects made so far

vars == << mapState, _layers, cachedResult, consulted,
           tpc, titr, bodyRuns, fpc, theMap, frames,
           bpc, mapProfile, csType, cfgImages, cfgHeights, image_sources,
           heightfield_sources, _dataProfile, _profileComputed, added,
           gdpReturns, afterFirst, validReturns, tilesBuilt, ops,
           wpc, wkind, wdata, wkey, wcur, wraster, wattempts, wret >>

cacheVars == << mapState, _layers, cachedResult, consulted >>

profileVars == << bpc, mapProfile, csType, cfgImages, cfgHeights, image_sources,
                  heightfield_sources, _dataProfile, _profileComputed, added,
                  gdpReturns, afterFirst, validReturns, tilesBuilt, ops >>

walkVars == << wpc, wkind, wdata, wkey, wcur, wraster, wattempts, wret >>

concVars == << tpc, titr, bodyRuns >>

frameVars == << fpc, theMap, frames >>

restVars == << concVars, frameVars >>

\* ------------------------------------------------------------------ bounds

MaxLayers == 2

MaxSources == 3

MaxOps == 3

MaxLevel == 2

MaxMapLayers == 2

MaxRevision == 4

MaxFrames == 2

\* ------------------------------------------------------- sequence helpers

SeqsUpTo(S, n) == UNION { [1..k -> S] : k \in 0..n }

\* std::vector::erase of the element at position i
Erase(s, i) == [ j \in 1..(Len(s) - 1) |-> IF j < i THEN s[j] ELSE s[j + 1] ]

\* ================================================================ MapFrame
\* ----------------------------------------------------------------- layers

NoValue == "none"

CachePolicies == { "normal", "cacheOnly", "noCache" }

\* What layer->getTileSource() and source->getBlacklist()->contains(key) give:
\* no source, a source that does not blacklist the key, a source that does.
SourceStates == { "absent", "live", "blacklisted" }

\* A layer of the frame that is a TerrainLayer, seen from isCached(key).
TerrainLayers ==
    [ terrain     : { TRUE },
      enabled     : BOOLEAN,
      policy      : CachePolicies,
      mayHaveData : BOOLEAN,
      source      : SourceStates,
      cached      : BOOLEAN ]

\* A layer for which dynamic_cast<TerrainLayer*> gives null.
OtherLayer ==
    [ terrain |-> FALSE, enabled |-> TRUE, policy |-> "normal",
      mayHaveData |-> FALSE, source |-> "absent", cached |-> FALSE ]

Layers == TerrainLayers \cup { OtherLayer }

\* _map.lock(map) fails ("dead"); the map has no cache; the map has a cache.
MapStates == { "dead", "nocache", "cache" }

\* One iteration of the loop of MapFrame::isCached on layer l:
\* "continue" (go to the next layer) or "false" (return false).
LayerStep_NoPolicyTest(l) ==
    IF ~l.terrain THEN "continue"
    ELSE IF ~l.enabled THEN "continue"
    ELSE IF l.policy = "cacheOnly" THEN "continue"
    ELSE IF ~l.mayHaveData THEN "continue"
    ELSE IF l.source = "absent" THEN "continue"
    ELSE IF l.source = "blacklisted" THEN "continue"
    ELSE IF ~l.cached THEN "false"
    ELSE "continue"

LayerStep_NoEnabledTest(l) ==
    IF ~l.terrain THEN "continue"
    ELSE IF l.policy = "cacheOnly" THEN "continue"
    ELSE IF l.policy = "noCache" THEN "false"
    ELSE IF ~l.mayHaveData THEN "continue"
    ELSE IF l.source = "absent" THEN "continue"
    ELSE IF l.source = "blacklisted" THEN "continue"
    ELSE IF ~l.cached THEN "false"
    ELSE "continue"

LayerStep(l) ==
    IF ~l.terrain THEN "continue"
    ELSE IF ~l.enabled THEN "continue"
    ELSE IF l.policy = "cacheOnly" THEN "continue"
    ELSE IF l.policy = "noCache" THEN "false"
    ELSE IF ~l.mayHaveData THEN "continue"
    ELSE IF l.source = "absent" THEN "continue"
    ELSE IF l.source = "blacklisted" THEN "continue"
    ELSE IF ~l.cached THEN "false"
    ELSE "continue"

\* The loop of MapFrame::isCached from layer i on.
RECURSIVE LayerLoop(_, _)
LayerLoop(ls, i) ==
    IF i > Len(ls) THEN TRUE
    ELSE IF LayerStep(ls[i]) = "false" THEN FALSE
    ELSE LayerLoop(ls, i + 1)

\* MapFrame::isCached(key)
isCached(m, ls) ==
    IF m = "nocache" THEN FALSE ELSE LayerLoop(ls, 1)

\* The questions MapFrame::isCached puts to terrain layer l, in the order of the
\* code, up to and including the one that ends the iteration; none for a layer
\* that is not a TerrainLayer.
LayerChecks_CoverageFirst(l) ==
    IF ~l.terrain THEN << >>
    ELSE IF ~l.enabled THEN << "getEnabled" >>
    ELSE IF ~l.mayHaveData THEN << "getEnabled", "mayHaveData" >>
    ELSE IF l.policy = "cacheOnly"
         THEN << "getEnabled", "mayHaveData", "isCacheOnly" >>
    ELSE IF l.policy = "noCache"
         THEN << "getEnabled", "mayHaveData", "isCacheOnly", "isCacheDisabled" >>
    ELSE IF l.source = "absent"
         THEN << "getEnabled", "mayHaveData", "isCacheOnly", "isCacheDisabled",
                 "getTileSource" >>
    ELSE IF l.source = "blacklisted"
         THEN << "getEnabled", "mayHaveData", "isCacheOnly", "isCacheDisabled",
                 "getTileSource", "getBlacklist" >>
    ELSE << "getEnabled", "mayHaveData", "isCacheOnly", "isCacheDisabled",
            "getTileSource", "getBlacklist", "isCached" >>

LayerChecks(l) ==
    IF ~l.terrain THEN << >>
    ELSE IF ~l.enabled THEN << "getEnabled" >>
    ELSE IF l.policy = "cacheOnly" THEN << "getEnabled", "isCacheOnly" >>
    ELSE IF l.policy = "noCache"
         THEN << "getEnabled", "isCacheOnly", "isCacheDisabled" >>
    ELSE IF ~l.mayHaveData
         THEN << "getEnabled", "isCacheOnly", "isCacheDisabled", "mayHaveData" >>
    ELSE IF l.source = "absent"
         THEN << "getEnabled", "isCacheOnly", "isCacheDisabled", "mayHaveData",
                 "getTileSource" >>
    ELSE IF l.source = "blacklisted"
         THEN << "getEnabled", "isCacheOnly", "isCacheDisabled", "mayHaveData",
                 "getTileSource", "getBlacklist" >>
    ELSE << "getEnabled", "isCacheOnly", "isCacheDisabled", "mayHaveData",
            "getTileSource", "getBlacklist", "isCached" >>

\* The questions put to layer i, each tagged with the position of the layer.
LayerTrace(ls, i) ==
    [ k \in 1..Len(LayerChecks(ls[i])) |->
        [ layer |-> i, check |-> LayerChecks(ls[i])[k] ] ]

\* Everything the loop of MapFrame::isCached asks from layer i on: it goes on
\* to layer i + 1 only when the iteration on layer i did not return false.
RECURSIVE LoopTrace(_, _)
LoopTrace(ls, i) ==
    IF i > Len(ls) THEN << >>
    ELSE IF LayerStep(ls[i]) = "false" THEN LayerTrace(ls, i)
    ELSE LayerTrace(ls, i) \o LoopTrace(ls, i + 1)

\* Everything one call of MapFrame::isCached(key) asks of the layers.
isCachedTrace(m, ls) ==
    IF m = "nocache" THEN << >> ELSE LoopTrace(ls, 1)

CacheIdle ==
    /\ mapState = "dead"
    /\ _layers = << >>
    /\ cachedResult = "off"
    /\ consulted = << >>

\* ============================================================= TileBuilder
\* ---------------------------------------------------------------- profiles

UNKNOWN == "UNKNOWN"

GLOBAL_GEODETIC == "GLOBAL_GEODETIC"

GLOBAL_MERCATOR == "GLOBAL_MERCATOR"

PROJECTED == "PROJECTED"

\* Two different projected (custom) profiles.
PROJECTED_A == "PROJECTED_A"

PROJECTED_B == "PROJECTED_B"

Profiles == { GLOBAL_GEODETIC, GLOBAL_MERCATOR, PROJECTED_A, PROJECTED_B }

\* TileGridProfile::profileType()
profileType(p) ==
    IF p \in { PROJECTED_A, PROJECTED_B } THEN PROJECTED ELSE p

STR_NONE == ""

STR_GLOBAL_MERCATOR == "global-mercator"

STR_GLOBAL_GEODETIC == "global-geodetic"

MapProfiles == { STR_NONE, STR_GLOBAL_MERCATOR, STR_GLOBAL_GEODETIC }

CSTYPE_GEOCENTRIC == "geocentric"

CSTYPE_PROJECTED == "projected"

CsTypes == { CSTYPE_GEOCENTRIC, CSTYPE_PROJECTED }

\* A source list of the map configuration, as the profile each source would
\* report once loaded; UNKNOWN stands for a source that cannot be loaded or
\* reports no profile.
SourceConfigLists(n) == SeqsUpTo(Profiles \cup { UNKNOWN }, n)

NoLists == [ img |-> << >>, hf |-> << >> ]

\* addSources: the sources of `from` that are valid and have a known profile,
\* in order; id is the position in `from`.
addSources(from) ==
    LET all == [ i \in 1..Len(from) |-> [ id |-> i, profile |-> from[i] ] ]
    IN  SelectSeq(all, LAMBDA s : s.profile # UNKNOWN)

\* TileBuilder::TileBuilder: the value _dataProfile has after construction.
ConstructedProfile_NoOverride(mp) == UNKNOWN

ConstructedProfile(mp) ==
    IF mp = STR_GLOBAL_MERCATOR THEN GLOBAL_MERCATOR
    ELSE IF mp = STR_GLOBAL_GEODETIC THEN GLOBAL_GEODETIC
    ELSE UNKNOWN

\* The test of getDataProfile's image loop that leads to erase().
ImageSourceIncompatible_Symmetric(dp, p) ==
    /\ dp # p
    /\ ~ ( { profileType(dp), profileType(p) } = { GLOBAL_GEODETIC, GLOBAL_MERCATOR } )

ImageSourceIncompatible_NoException(dp, p) == dp # p

ImageSourceIncompatible(dp, p) ==
    /\ dp # p
    /\ ~ ( /\ profileType(dp) = GLOBAL_GEODETIC
           /\ profileType(p) = GLOBAL_MERCATOR )

\* The test of getDataProfile's heightfield loop that leads to erase().
HeightFieldSourceIncompatible(dp, p) == dp # p

\* The image loop of getDataProfile from position i on, with running profile
\* dp; erased records that erase() was called (the iterator is used after it).
RECURSIVE ImageLoop(_, _, _, _)
ImageLoop(dp, srcs, i, erased) ==
    IF i > Len(srcs) THEN [ dp |-> dp, srcs |-> srcs, erased |-> erased ]
    ELSE IF profileType(dp) = UNKNOWN
         THEN ImageLoop(srcs[i].profile, srcs, i + 1, erased)
    ELSE IF ImageSourceIncompatible(dp, srcs[i].profile)
         THEN ImageLoop(dp, Erase(srcs, i), i, TRUE)
    ELSE ImageLoop(dp, srcs, i + 1, erased)

\* The heightfield loop of getDataProfile.
RECURSIVE HeightFieldLoop(_, _, _, _)
HeightFieldLoop(dp, srcs, i, erased) ==
    IF i > Len(srcs) THEN [ dp |-> dp, srcs |-> srcs, erased |-> erased ]
    ELSE IF profileType(dp) = UNKNOWN
         THEN HeightFieldLoop(srcs[i].profile, srcs, i + 1, erased)
    ELSE IF HeightFieldSourceIncompatible(dp, srcs[i].profile)
         THEN HeightFieldLoop(dp, Erase(srcs, i), i, TRUE)
    ELSE HeightFieldLoop(dp, srcs, i + 1, erased)

\* The builder's fields as one value.
Builder(img, hf, dp, computed) ==
    [ img |-> img, hf |-> hf, dp |-> dp, computed |-> computed ]

ThisBuilder ==
    Builder(image_sources, heightfield_sources, _dataProfile, _profileComputed)

\* The profile a getDataProfile call hands back, given the builder before and
\* after the call.
ReturnedProfile_Stale(before, after) == before.dp

ReturnedProfile(before, after) == after.dp

\* TileBuilder::getDataProfile on builder b: the set of outcomes, each
\* [ b: the builder afterwards, rets: the profile returned, abort ].
\* erase(itr) invalidates itr, which the loop goes on using: a build with plain
\* vector iterators carries on at the element that moved into the erased slot,
\* a build with checked iterators aborts the process (abort = TRUE).
getDataProfile(b) ==
    IF b.computed
    THEN { [ b |-> b, rets |-> << ReturnedProfile(b, b) >>, abort |-> FALSE ] }
    ELSE LET i  == ImageLoop(b.dp, b.img, 1, FALSE)
             h  == HeightFieldLoop(i.dp, b.hf, 1, i.erased)
             nb == Builder(i.srcs, h.srcs, h.dp, TRUE)
         IN  { [ b |-> nb, rets |-> << ReturnedProfile(b, nb) >>, abort |-> FALSE ] }
             \cup
             ( IF h.erased
               THEN { [ b |-> b, rets |-> << >>, abort |-> TRUE ] }
               ELSE {} )

\* TileBuilder::isValid on builder b with coordinate system type cs: the set of
\* outcomes [ b, rets: profiles returned by its getDataProfile calls, abort,
\* valid ].
isValid(b, cs) ==
    IF Len(b.img) = 0 /\ Len(b.hf) = 0
    THEN { [ b |-> b, rets |-> << >>, abort |-> FALSE, valid |-> FALSE ] }
    ELSE UNION {
           IF o1.abort
           THEN { [ b |-> o1.b, rets |-> o1.rets, abort |-> TRUE, valid |-> FALSE ] }
           ELSE IF profileType(o1.rets[1]) = PROJECTED /\ cs = CSTYPE_GEOCENTRIC
           THEN { [ b |-> o1.b, rets |-> o1.rets, abort |-> FALSE, valid |-> FALSE ] }
           ELSE { IF o2.abort
                  THEN [ b |-> o2.b, rets |-> o1.rets \o o2.rets, abort |-> TRUE,
                         valid |-> FALSE ]
                  ELSE [ b |-> o2.b, rets |-> o1.rets \o o2.rets, abort |-> FALSE,
                         valid |-> profileType(o2.rets[1]) # UNKNOWN ]
                  : o2 \in getDataProfile(o1.b) }
           : o1 \in getDataProfile(b) }

\* TileBuilder::TileBuilder for map configuration (mp, imgs, hfs).
Constructed(mp, imgs, hfs) ==
    Builder(addSources(imgs), addSources(hfs), ConstructedProfile(mp), FALSE)

ProfileIdle ==
    /\ bpc = "off"
    /\ mapProfile = STR_NONE
    /\ csType = CSTYPE_GEOCENTRIC
    /\ cfgImages = << >>
    /\ cfgHeights = << >>
    /\ image_sources = << >>
    /\ heightfield_sources = << >>
    /\ _dataProfile = UNKNOWN
    /\ _profileComputed = FALSE
    /\ added = NoLists
    /\ gdpReturns = << >>
    /\ afterFirst = NoLists
    /\ validReturns = << >>
    /\ tilesBuilt = 0
    /\ ops = 0

\* =========================================================== ancestor walk
\* -------------------------------------------------------------------- keys

\* The number of columns (and of rows) of level n.
RECURSIVE Pow2(_)
Pow2(n) == IF n <= 0 THEN 1 ELSE 2 * Pow2(n - 1)

\* TileKey: a cell (level, column x, row y) of the quad tree.
TileKeys ==
    UNION { { [ level |-> l, x |-> a, y |-> b ] :
              a \in 0..(Pow2(l) - 1), b \in 0..(Pow2(l) - 1) } : l \in 0..MaxLevel }

\* An invalid (null) ref_ptr<TileKey>.
NoKey == [ level |-> -1, x |-> 0, y |-> 0 ]

\* TileKey::createParentKey
createParentKey(k) ==
    IF k.level <= 0 THEN NoKey
    ELSE [ level |-> k.level - 1, x |-> k.x \div 2, y |-> k.y \div 2 ]

\* What a tile source holds at one level: nothing, every tile, or only the
\* tiles of the western / eastern half of the level.
Coverages == { "none", "all", "west", "east" }

\* A tile source, as its coverage at each level.
TileSources == [ 0..MaxLevel -> Coverages ]

hasData(src, k) ==
    /\ k.level \in DOMAIN src
    /\ \/ src[k.level] = "all"
       \/ src[k.level] = "west" /\ 2 * k.x < Pow2(k.level)
       \/ src[k.level] = "east" /\ 2 * k.x >= Pow2(k.level)

\* An invalid ref_ptr<osg::Image> / ref_ptr<osg::HeightField>.
NoRaster == [ valid |-> FALSE, from |-> NoKey, extractedFor |-> NoKey ]

\* tileSource->createImage(k) / tileSource->createHeightField(k): the raster
\* of key k as the source made it, or an invalid pointer.
createRaster(src, k) ==
    IF hasData(src, k)
    THEN [ valid |-> TRUE, from |-> k, extractedFor |-> NoKey ]
    ELSE NoRaster

\* HeightFieldExtractor(hf_key, hf)->extractChild(key, ...): the part of the
\* raster that covers key.
extractChild(r, key) == [ r EXCEPT !.extractedFor = key ]

NoRet == [ found |-> FALSE, raster |-> NoRaster, key |-> NoKey ]

WalkIdle ==
    /\ wpc = "off"
    /\ wkind = NoValue
    /\ wdata = [ l \in 0..MaxLevel |-> "none" ]
    /\ wkey = NoKey
    /\ wcur = NoKey
    /\ wraster = NoRaster
    /\ wattempts = << >>
    /\ wret = NoRet

\* ====================================================== threads, frames

Threads == { "t1", "t2" }

ConcIdle ==
    /\ tpc = [ t \in Threads |-> "off" ]
    /\ titr = [ t \in Threads |-> 0 ]
    /\ bodyRuns = 0

NoMap == [ alive |-> FALSE, layers |-> << >>, rev |-> 0 ]

FrameIdle ==
    /\ fpc = "off"
    /\ theMap = NoMap
    /\ frames = << >>

RestIdle == ConcIdle /\ FrameIdle

\* ========================================================= specifications
\* ---------------------------------------------------------------- CacheSpec

CacheInit ==
    /\ mapState \in MapStates
    /\ _layers \in SeqsUpTo(Layers, MaxLayers)
    /\ cachedResult = NoValue
    /\ consulted = << >>
    /\ ProfileIdle
    /\ WalkIdle
    /\ RestIdle

\* A caller asks the frame isCached(key).
IsCachedCall ==
    /\ cachedResult = NoValue
    /\ cachedResult' = IF isCached(mapState, _layers) THEN "true" ELSE "false"
    /\ consulted' = isCachedTrace(mapState, _layers)
    /\ UNCHANGED << mapState, _layers >>
    /\ UNCHANGED profileVars
    /\ UNCHANGED walkVars
    /\ UNCHANGED restVars

CacheNext == IsCachedCall

CacheSpec == CacheInit /\ [][CacheNext]_vars

\* -------------------------------------------------------------- ProfileSpec

ProfileInit ==
    /\ bpc = "new"
    /\ mapProfile \in MapProfiles
    /\ csType \in CsTypes
    /\ cfgImages \in SourceConfigLists(MaxSources)
    /\ cfgHeights \in SourceConfigLists(MaxSources - Len(cfgImages))
    /\ image_sources = << >>
    /\ heightfield_sources = << >>
    /\ _dataProfile = UNKNOWN
    /\ _profileComputed = FALSE
    /\ added = NoLists
    /\ gdpReturns = << >>
    /\ afterFirst = NoLists
    /\ validReturns = << >>
    /\ tilesBuilt = 0
    /\ ops = 0
    /\ CacheIdle
    /\ WalkIdle
    /\ RestIdle

\* The builder's fields and the call history after an operation with outcome o
\* (of getDataProfile or isValid), when the builder before it had the source
\* lists `first` recorded as left by the first getDataProfile.
Apply(o, first, returnsBefore) ==
    /\ bpc' = IF o.abort THEN "aborted" ELSE "built"
    /\ image_sources' = o.b.img
    /\ heightfield_sources' = o.b.hf
    /\ _dataProfile' = o.b.dp
    /\ _profileComputed' = o.b.computed
    /\ gdpReturns' = returnsBefore \o o.rets
    /\ afterFirst' = IF returnsBefore = << >> /\ o.rets # << >>
                     THEN [ img |-> o.b.img, hf |-> o.b.hf ]
                     ELSE first

\* TileBuilder::create: construct the builder for the map configuration, called
\* as readNode calls it, without options (with options, line 51 copies from the
\* still-null local_options).
Create ==
    /\ bpc = "new"
    /\ LET b == Constructed(mapProfile, cfgImages, cfgHeights)
       IN  /\ bpc' = "built"
           /\ image_sources' = b.img
           /\ heightfield_sources' = b.hf
           /\ _dataProfile' = b.dp
           /\ _profileComputed' = b.computed
           /\ added' = [ img |-> b.img, hf |-> b.hf ]
    /\ ops' = ops + 1
    /\ UNCHANGED << mapProfile, csType, cfgImages, cfgHeights, gdpReturns,
                    afterFirst, validReturns, tilesBuilt >>
    /\ UNCHANGED cacheVars
    /\ UNCHANGED walkVars
    /\ UNCHANGED restVars

\* A caller asks the builder for its data profile.
GetDataProfile ==
    /\ bpc = "built"
    /\ ops < MaxOps
    /\ \E o \in getDataProfile(ThisBuilder) : Apply(o, afterFirst, gdpReturns)
    /\ ops' = ops + 1
    /\ UNCHANGED << mapProfile, csType, cfgImages, cfgHeights, added,
                    validReturns, tilesBuilt >>
    /\ UNCHANGED cacheVars
    /\ UNCHANGED walkVars
    /\ UNCHANGED restVars

\* A caller asks the builder whether it is valid.
IsValid ==
    /\ bpc = "built"
    /\ ops < MaxOps
    /\ \E o \in isValid(ThisBuilder, csType) :
          /\ Apply(o, afterFirst, gdpReturns)
          /\ validReturns' = IF o.abort THEN validReturns
                             ELSE Append(validReturns, o.valid)
    /\ ops' = ops + 1
    /\ UNCHANGED << mapProfile, csType, cfgImages, cfgHeights, added, tilesBuilt >>
    /\ UNCHANGED cacheVars
    /\ UNCHANGED walkVars
    /\ UNCHANGED restVars

\* TileBuilder::readNode(map): create the builder, validate it and, when it is
\* valid, ask its profile for the root key and build the root node.
ReadNode ==
    /\ bpc = "new"
    /\ LET b == Constructed(mapProfile, cfgImages, cfgHeights)
       IN  /\ added' = [ img |-> b.img, hf |-> b.hf ]
           /\ \E v \in isValid(b, csType) :
                 IF v.abort \/ ~v.valid
                 THEN /\ Apply(v, NoLists, << >>)
                      /\ validReturns' = IF v.abort THEN validReturns
                                         ELSE Append(validReturns, v.valid)
                      /\ tilesBuilt' = tilesBuilt
                 ELSE \E g \in getDataProfile(v.b) :
                         /\ Apply([ g EXCEPT !.rets = v.rets \o g.rets ],
                                  NoLists, << >>)
                         /\ validReturns' = Append(validReturns, v.valid)
                         /\ tilesBuilt' = IF g.abort THEN tilesBuilt
                                          ELSE tilesBuilt + 1
    /\ ops' = ops + 1
    /\ UNCHANGED << mapProfile, csType, cfgImages, cfgHeights >>
    /\ UNCHANGED cacheVars
    /\ UNCHANGED walkVars
    /\ UNCHANGED restVars

ProfileNext ==
    \/ Create
    \/ GetDataProfile
    \/ IsValid
    \/ ReadNode

ProfileSpec == ProfileInit /\ [][ProfileNext]_vars

\* ----------------------------------------------------------------- WalkSpec

WalkInit ==
    /\ wpc = "idle"
    /\ wkind = NoValue
    /\ wdata \in TileSources
    /\ wkey = NoKey
    /\ wcur = NoKey
    /\ wraster = NoRaster
    /\ wattempts = << >>
    /\ wret = NoRet
    /\ CacheIdle
    /\ ProfileIdle
    /\ RestIdle

\* createValidImage / createValidHeightField, up to the test of the raster
\* made with the given key: on failure the walk goes on with the parent key.
DirectAttempt(kind, key) ==
    /\ wpc = "idle"
    /\ wkind' = kind
    /\ wkey' = key
    /\ wattempts' = << key >>
    /\ LET r == createRaster(wdata, key)
       IN  /\ wraster' = r
           /\ IF r.valid
              THEN /\ wcur' = key
                   /\ wpc' = "return"
              ELSE /\ wcur' = createParentKey(key)
                   /\ wpc' = "parents"
    /\ UNCHANGED << wdata, wret >>
    /\ UNCHANGED cacheVars
    /\ UNCHANGED profileVars
    /\ UNCHANGED restVars

\* A parents loop that does not move to the parent key after a failure.
ParentAttempt_NoAdvance ==
    /\ wpc = "parents"
    /\ IF wcur = NoKey
       THEN /\ wpc' = IF wkind = "heightfield" THEN "afterParents" ELSE "return"
            /\ UNCHANGED << wcur, wraster, wattempts >>
       ELSE LET r == createRaster(wdata, wcur)
            IN  /\ wattempts' = Append(wattempts, wcur)
                /\ wraster' = r
                /\ wcur' = wcur
                /\ wpc' = IF ~r.valid THEN "parents"
                          ELSE IF wkind = "heightfield" THEN "afterParents"
                          ELSE "return"
    /\ UNCHANGED << wkind, wdata, wkey, wret >>
    /\ UNCHANGED cacheVars
    /\ UNCHANGED profileVars
    /\ UNCHANGED restVars

\* A parents loop without the break: it goes up to the root whatever it finds.
ParentAttempt_NoBreak ==
    /\ wpc = "parents"
    /\ IF wcur = NoKey
       THEN /\ wpc' = IF wkind = "heightfield" THEN "afterParents" ELSE "return"
            /\ UNCHANGED << wcur, wraster, wattempts >>
       ELSE LET r == createRaster(wdata, wcur)
            IN  /\ wattempts' = Append(wattempts, wcur)
                /\ wraster' = r
                /\ wpc' = "parents"
                /\ wcur' = createParentKey(wcur)
    /\ UNCHANGED << wkind, wdata, wkey, wret >>
    /\ UNCHANGED cacheVars
    /\ UNCHANGED profileVars
    /\ UNCHANGED restVars

\* One turn of the while loop over the parent keys: leave the loop when the
\* key is invalid, else ask the source and break on success or go up one level.
ParentAttempt ==
    /\ wpc = "parents"
    /\ IF wcur = NoKey
       THEN /\ wpc' = IF wkind = "heightfield" THEN "afterParents" ELSE "return"
            /\ UNCHANGED << wcur, wraster, wattempts >>
       ELSE LET r == createRaster(wdata, wcur)
            IN  /\ wattempts' = Append(wattempts, wcur)
                /\ wraster' = r
                /\ IF r.valid
                   THEN /\ wpc' = IF wkind = "heightfield" THEN "afterParents"
                                  ELSE "return"
                        /\ wcur' = wcur
                   ELSE /\ wpc' = "parents"
                        /\ wcur' = createParentKey(wcur)
    /\ UNCHANGED << wkind, wdata, wkey, wret >>
    /\ UNCHANGED cacheVars
    /\ UNCHANGED profileVars
    /\ UNCHANGED restVars

\* createValidHeightField after its parents loop: with a raster, extract the
\* requested key's part of it.
ExtractFromParent_Never ==
    /\ wpc = "afterParents"
    /\ wpc' = "return"
    /\ UNCHANGED << wraster, wkind, wdata, wkey, wcur, wattempts, wret >>
    /\ UNCHANGED cacheVars
    /\ UNCHANGED profileVars
    /\ UNCHANGED restVars

ExtractFromParent ==
    /\ wpc = "afterParents"
    /\ wraster' = IF wraster.valid THEN extractChild(wraster, wkey) ELSE wraster
    /\ wpc' = "return"
    /\ UNCHANGED << wkind, wdata, wkey, wcur, wattempts, wret >>
    /\ UNCHANGED cacheVars
    /\ UNCHANGED profileVars
    /\ UNCHANGED restVars

\* The end of both functions: createValidImage fills imageTile with the image
\* and image_key and returns whether there is an image; createValidHeightField
\* returns hf.
Return ==
    /\ wpc = "return"
    /\ wret' = IF wkind = "image"
               THEN IF wraster.valid
                    THEN [ found |-> TRUE, raster |-> wraster, key |-> wcur ]
                    ELSE NoRet
               ELSE [ found |-> wraster.valid, raster |-> wraster, key |-> NoKey ]
    /\ wpc' = "done"
    /\ UNCHANGED << wkind, wdata, wkey, wcur, wraster, wattempts >>
    /\ UNCHANGED cacheVars
    /\ UNCHANGED profileVars
    /\ UNCHANGED restVars

WalkNext ==
    \/ \E kind \in { "image", "heightfield" }, key \in TileKeys :
          DirectAttempt(kind, key)
    \/ ParentAttempt
    \/ ExtractFromParent
    \/ Return

WalkSpec == WalkInit /\ [][WalkNext]_vars

\* A call runs to its end: once createValidImage / createValidHeightField is
\* entered, each of its steps is taken.
WalkFairSpec ==
    /\ WalkSpec
    /\ WF_vars(ParentAttempt)
    /\ WF_vars(ExtractFromParent)
    /\ WF_vars(Return)

\* ================================================================== claims
\* ------------------------------------------------------------ isCached

Returned == cachedResult \in { "true", "false" }

\* A layer that is enabled, has the cache-disabled policy and may have data
\* at the key.
IsLiveOnly(l) ==
    l.terrain /\ l.enabled /\ l.policy = "noCache" /\ l.mayHaveData

\* Rules 1-7: the layer is enabled, not cache-only, and either cache-disabled
\* or (with possible data, a live source, the key not blacklisted) not cached.
ForcesFalse(l) ==
    /\ l.terrain
    /\ l.enabled
    /\ l.policy # "cacheOnly"
    /\ \/ l.policy = "noCache"
       \/ l.mayHaveData /\ l.source = "live" /\ ~l.cached

NoLayerForcesFalse == \A i \in 1..Len(_layers) : ~ForcesFalse(_layers[i])

\* C1: whenever the layer set holds, at any position, an enabled layer with the
\* cache-disabled policy that may have data at the key, isCached returns false,
\* whatever the other layers and the map are.
C1_DisabledPolicyForcesFalse ==
    ( Returned /\ \E i \in 1..Len(_layers) : IsLiveOnly(_layers[i]) )
    => cachedResult = "false"

\* C1 witness: a map with a cache; the cache-disabled layer is the last one,
\* behind an enabled layer that is cached, and the call has returned false.
C1_Witness ==
    /\ cachedResult = "false"
    /\ mapState = "cache"
    /\ Len(_layers) = 2
    /\ IsLiveOnly(_layers[2])
    /\ _layers[1].terrain /\ _layers[1].enabled /\ _layers[1].policy = "normal"
    /\ _layers[1].mayHaveData /\ _layers[1].source = "live" /\ _layers[1].cached

\* C2 as claimed: isCached returns true whenever no layer forces false under
\* rules 1-7 (so for an empty or all-disabled layer set), whatever the state of
\* the map, a map without cache included.
C2_TrueWhenNoLayerForcesFalse ==
    ( Returned /\ NoLayerForcesFalse ) => cachedResult = "true"

\* C2 as amended: isCached returns true whenever no layer forces false under
\* rules 1-7 and the frame's map is gone or has a cache; for a live map without
\* a cache it returns false, whatever the layers.
C2_TrueWhenNoLayerForcesFalseAndMapHasCache ==
    /\ ( Returned /\ NoLayerForcesFalse /\ mapState # "nocache" )
       => cachedResult = "true"
    /\ ( Returned /\ mapState = "nocache" ) => cachedResult = "false"

\* C2 witness: a map with a cache and two disabled layers, one of them with
\* the cache-disabled policy; the call has returned true.
C2_Witness ==
    /\ cachedResult = "true"
    /\ mapState = "cache"
    /\ Len(_layers) = 2
    /\ \A i \in 1..2 : _layers[i].terrain /\ ~_layers[i].enabled
    /\ _layers[1].policy = "noCache"

\* ------------------------------------------------------- ancestor walk

\* a is k or an ancestor of k, by level / column / row arithmetic.
OnChain(a, k) ==
    /\ a.level \in 0..k.level
    /\ a.x = k.x \div Pow2(k.level - a.level)
    /\ a.y = k.y \div Pow2(k.level - a.level)

ChainOf(k) == { a \in TileKeys : OnChain(a, k) }

\* C3: the walk succeeds exactly when the source has data at the requested key
\* or at one of its ancestors; the producing key is then the deepest key of the
\* requested key's parent chain with data (never deeper than the request, never
\* off the chain); "not found" comes only after every key of the chain was tried.
C3_NearestAncestorWithData ==
    wpc = "done" =>
      /\ wret.found <=> \E a \in ChainOf(wkey) : hasData(wdata, a)
      /\ wret.found =>
            /\ wcur \in ChainOf(wkey)
            /\ wcur.level <= wkey.level
            /\ hasData(wdata, wcur)
            /\ \A a \in ChainOf(wkey) : a.level > wcur.level => ~hasData(wdata, a)
            /\ wraster.valid /\ wraster.from = wcur
            /\ wkind = "image" => wret.key = wcur
      /\ ~wret.found =>
            { wattempts[i] : i \in 1..Len(wattempts) } = ChainOf(wkey)

\* C3 witness: a finished walk that found data two levels above the requested
\* key, while the source has data for other tiles of the requested level.
C3_Witness ==
    /\ wpc = "done"
    /\ wret.found
    /\ wkey.level = 2
    /\ wcur.level = 0
    /\ wdata[2] # "none"

\* C4 (state part): the keys asked of the source are the requested key and then
\* its ancestors, one level up each time, so at most level+1 of them and none
\* twice; the parent key is absent exactly after the level-0 key was tried; a
\* finished walk either found a raster or tried the whole chain.
C4_AttemptsBounded ==
    wpc \notin { "off", "idle" } =>
      /\ Len(wattempts) <= wkey.level + 1
      /\ \A i \in 1..Len(wattempts) :
            /\ wattempts[i].level = wkey.level - (i - 1)
            /\ OnChain(wattempts[i], wkey)
      /\ \A i, j \in 1..Len(wattempts) : i # j => wattempts[i] # wattempts[j]
      /\ ( wpc = "parents" /\ wcur = NoKey ) => Len(wattempts) = wkey.level + 1
      /\ wpc = "done" => ( wret.found \/ Len(wattempts) = wkey.level + 1 )

\* C4: the ancestor walk always terminates: it makes at most level+1 production
\* attempts, asks each key of the chain at most once, and every started walk
\* ends (in success or in "not found").
C4_WalkTerminates ==
    /\ []C4_AttemptsBounded
    /\ ( wpc \in { "parents", "afterParents", "return" } ) ~> ( wpc = "done" )

\* C4 witness: a finished walk from a level-2 key that asked all three keys of
\* the chain and found nothing.
C4_Witness ==
    /\ wpc = "done"
    /\ ~wret.found
    /\ wkey.level = 2
    /\ Len(wattempts) = 3

\* C10 as claimed: for images and for heightfields, a raster produced at the
\* requested key is returned as produced, and a raster produced at a strict
\* ancestor is returned extracted for the requested key.
C10_AncestorRasterIsExtracted ==
    ( wpc = "done" /\ wret.found ) =>
      /\ wret.raster.from = wcur
      /\ wcur = wkey => wret.raster.extractedFor = NoKey
      /\ wcur # wkey => wret.raster.extractedFor = wkey

\* C10 as amended: createValidHeightField returns the raster as produced on a
\* direct hit and extracted for the requested key on an ancestor hit (it does
\* not report the producing key); createValidImage never extracts: it returns
\* the raster as produced together with the producing key, which equals the
\* requested key exactly on a direct hit.
C10_ExtractionByKind ==
    ( wpc = "done" /\ wret.found ) =>
      /\ wret.raster.from = wcur
      /\ wkind = "heightfield" =>
            /\ wcur = wkey => wret.raster.extractedFor = NoKey
            /\ wcur # wkey => wret.raster.extractedFor = wkey
            /\ wret.key = NoKey
      /\ wkind = "image" =>
            /\ wret.raster.extractedFor = NoKey
            /\ wret.key = wcur
            /\ wret.key = wkey <=> Len(wattempts) = 1

\* C10 witness: a heightfield found two levels above the requested key and
\* returned extracted for the requested key.
C10_Witness ==
    /\ wpc = "done"
    /\ wkind = "heightfield"
    /\ wret.found
    /\ wkey.level = 2
    /\ wcur.level = 0
    /\ wret.raster.extractedFor = wkey

\* ------------------------------------------------- profile reconciliation

ProfilesOf(srcs) == [ i \in 1..Len(srcs) |-> srcs[i].profile ]

\* The builder exists and its reconciliation has run to its end.
Reconciled == bpc = "built" /\ _profileComputed

\* The profile the map configuration imposes, UNKNOWN when it imposes none.
Override ==
    IF mapProfile = STR_GLOBAL_MERCATOR THEN GLOBAL_MERCATOR
    ELSE IF mapProfile = STR_GLOBAL_GEODETIC THEN GLOBAL_GEODETIC
    ELSE UNKNOWN

\* The profile of the first source of the lists img, hf (images first).
FirstProfile(img, hf) ==
    IF img # << >> THEN img[1].profile
    ELSE IF hf # << >> THEN hf[1].profile
    ELSE UNKNOWN

\* Identical, or one geodetic-global and the other mercator-global.
Compatible(p, q) ==
    \/ p = q
    \/ { profileType(p), profileType(q) } = { GLOBAL_GEODETIC, GLOBAL_MERCATOR }

C6_RemovedIffIncompatible ==
    Reconciled =>
      /\ image_sources =
            SelectSeq(added.img, LAMBDA s : Compatible(_dataProfile, s.profile))
      /\ heightfield_sources =
            SelectSeq(added.hf, LAMBDA s : Compatible(_dataProfile, s.profile))

\* C6 as amended: an image source is removed iff its profile differs from the
\* running result, unless the running result is geodetic-global and the source
\* mercator-global; an elevation source is removed iff its profile differs from
\* the running result; the running result, once set by the override or by the
\* first source, is not changed by a later source.
C6_RemovedIffDifferentButMercatorImage ==
    Reconciled =>
      /\ image_sources =
            SelectSeq(added.img,
                      LAMBDA s : \/ s.profile = _dataProfile
                                 \/ /\ profileType(_dataProfile) = GLOBAL_GEODETIC
                                    /\ profileType(s.profile) = GLOBAL_MERCATOR)
      /\ heightfield_sources =
            SelectSeq(added.hf, LAMBDA s : s.profile = _dataProfile)
      /\ _dataProfile =
            IF Override # UNKNOWN THEN Override
            ELSE FirstProfile(image_sources, heightfield_sources)

\* C6 witness: a reconciled builder with geodetic-global profile that kept a
\* mercator image source and removed a mercator elevation source.
C6_Witness ==
    /\ Reconciled
    /\ _dataProfile = GLOBAL_GEODETIC
    /\ \E i \in 1..Len(image_sources) : image_sources[i].profile = GLOBAL_MERCATOR
    /\ \E i \in 1..Len(added.hf) : added.hf[i].profile = GLOBAL_MERCATOR
    /\ \A i \in 1..Len(heightfield_sources) :
          heightfield_sources[i].profile # GLOBAL_MERCATOR

\* C7: every profile getDataProfile returns is the override when the map
\* configuration declares one, whatever the sources and their order; without
\* override it is the profile of the first source (the first image source, or
\* the first elevation source when there is no image source), and unknown when
\* there is no source.
C7_OverrideWins ==
    \A i \in 1..Len(gdpReturns) :
       gdpReturns[i] = IF Override # UNKNOWN THEN Override
                       ELSE FirstProfile(added.img, added.hf)

\* C7 witness: a mercator override over a first image source that is geodetic,
\* after getDataProfile has returned.
C7_Witness ==
    /\ bpc = "built"
    /\ gdpReturns # << >>
    /\ mapProfile = STR_GLOBAL_MERCATOR
    /\ added.img # << >>
    /\ added.img[1].profile = GLOBAL_GEODETIC

\* The builder cannot build: no usable source, an unknown profile, or a
\* projected profile for a geocentric map.
Unusable ==
    \/ Len(image_sources) = 0 /\ Len(heightfield_sources) = 0
    \/ profileType(_dataProfile) = UNKNOWN
    \/ profileType(_dataProfile) = PROJECTED /\ csType = CSTYPE_GEOCENTRIC

\* C8: a builder that has no usable source after reconciliation, or an unknown
\* profile, or a projected profile for a geocentric map, was reported invalid
\* by every isValid call, the first included, and readNode built no tile for it.
C8_UnusableBuilderIsInvalid ==
    ( bpc = "built" /\ Unusable ) =>
      /\ \A i \in 1..Len(validReturns) : validReturns[i] = FALSE
      /\ tilesBuilt = 0

\* C9: after the first getDataProfile call every later call returns the profile
\* the first call returned and the two source lists stay as the first call left
\* them.
C9_Memoized ==
    ( bpc = "built" /\ gdpReturns # << >> ) =>
      /\ \A i \in 1..Len(gdpReturns) : gdpReturns[i] = gdpReturns[1]
      /\ image_sources = afterFirst.img
      /\ heightfield_sources = afterFirst.hf

\* C9 witness: getDataProfile has returned at least twice on a builder whose
\* first call removed a source.
C9_Witness ==
    /\ bpc = "built"
    /\ Len(gdpReturns) >= 2
    /\ afterFirst.img # added.img

\* ================================ several threads on one TileBuilder
\* getDataProfile, createNode and the builder's fields carry no lock, so the
\* steps of two threads that hold the same builder (create registers it in
\* s_tile_builders before readNode validates it) interleave freely.  Each
\* thread does what readNode does: it asks for the profile (through isValid),
\* then resolves tiles, which reads the two source lists.

\* Positions inside the body of getDataProfile (after the test of
\* _profileComputed, up to the assignment that sets it).
InBody == { "images", "heightfields", "setComputed" }

ConcInit ==
    /\ bpc = "shared"
    /\ mapProfile \in MapProfiles
    /\ csType = CSTYPE_GEOCENTRIC
    /\ cfgImages \in SourceConfigLists(MaxSources)
    /\ cfgHeights \in SourceConfigLists(MaxSources - Len(cfgImages))
    /\ LET b == Constructed(mapProfile, cfgImages, cfgHeights)
       IN  /\ image_sources = b.img
           /\ heightfield_sources = b.hf
           /\ _dataProfile = b.dp
           /\ _profileComputed = b.computed
           /\ added = [ img |-> b.img, hf |-> b.hf ]
    /\ gdpReturns = << >>
    /\ afterFirst = NoLists
    /\ validReturns = << >>
    /\ tilesBuilt = 0
    /\ ops = 0
    /\ tpc = [ t \in Threads |-> "start" ]
    /\ titr = [ t \in Threads |-> 0 ]
    /\ bodyRuns = 0
    /\ CacheIdle
    /\ WalkIdle
    /\ FrameIdle

ConcUnchanged ==
    /\ UNCHANGED << bpc, mapProfile, csType, cfgImages, cfgHeights, added,
                    gdpReturns, afterFirst, validReturns, tilesBuilt, ops >>
    /\ UNCHANGED cacheVars
    /\ UNCHANGED walkVars
    /\ UNCHANGED frameVars

\* The process ends (a checked iterator used after erase, or an iterator
\* beyond the end of a list another thread has shortened).
Crash ==
    /\ tpc' = [ t \in Threads |-> "aborted" ]
    /\ UNCHANGED << titr, bodyRuns, image_sources, heightfield_sources,
                    _dataProfile, _profileComputed >>

\* getDataProfile, line 115: the test of _profileComputed.
EnterGetDataProfile(t) ==
    /\ tpc[t] = "start"
    /\ IF _profileComputed
       THEN /\ tpc' = [ tpc EXCEPT ![t] = "returned" ]
            /\ UNCHANGED << titr, bodyRuns >>
       ELSE /\ tpc' = [ tpc EXCEPT ![t] = "images" ]
            /\ titr' = [ titr EXCEPT ![t] = 1 ]
            /\ bodyRuns' = bodyRuns + 1
    /\ UNCHANGED << image_sources, heightfield_sources, _dataProfile,
                    _profileComputed >>
    /\ ConcUnchanged

\* One turn of the loop over image_sources (lines 117-142) by thread t.
ImageTurn(t) ==
    /\ tpc[t] = "images"
    /\ LET i == titr[t]
       IN  IF i = Len(image_sources) + 1
           THEN /\ tpc' = [ tpc EXCEPT ![t] = "heightfields" ]
                /\ titr' = [ titr EXCEPT ![t] = 1 ]
                /\ UNCHANGED << bodyRuns, image_sources, heightfield_sources,
                                _dataProfile, _profileComputed >>
           ELSE IF i > Len(image_sources) + 1
           THEN \/ Crash
                \/ /\ tpc' = [ tpc EXCEPT ![t] = "heightfields" ]
                   /\ titr' = [ titr EXCEPT ![t] = 1 ]
                   /\ UNCHANGED << bodyRuns, image_sources, heightfield_sources,
                                   _dataProfile, _profileComputed >>
           ELSE IF profileType(_dataProfile) = UNKNOWN
           THEN /\ _dataProfile' = image_sources[i].profile
                /\ titr' = [ titr EXCEPT ![t] = i + 1 ]
                /\ UNCHANGED << tpc, bodyRuns, image_sources,
                                heightfield_sources, _profileComputed >>
           ELSE IF ImageSourceIncompatible(_dataProfile, image_sources[i].profile)
           THEN \/ Crash
                \/ /\ image_sources' = Erase(image_sources, i)
                   /\ UNCHANGED << tpc, titr, bodyRuns, heightfield_sources,
                                   _dataProfile, _profileComputed >>
           ELSE /\ titr' = [ titr EXCEPT ![t] = i + 1 ]
                /\ UNCHANGED << tpc, bodyRuns, image_sources,
                                heightfield_sources, _dataProfile,
                                _profileComputed >>
    /\ ConcUnchanged

\* One turn of the loop over heightfield_sources (lines 144-163) by thread t.
HeightFieldTurn(t) ==
    /\ tpc[t] = "heightfields"
    /\ LET i == titr[t]
       IN  IF i = Len(heightfield_sources) + 1
           THEN /\ tpc' = [ tpc EXCEPT ![t] = "setComputed" ]
                /\ UNCHANGED << titr, bodyRuns, image_sources,
                                heightfield_sources, _dataProfile,
                                _profileComputed >>
           ELSE IF i > Len(heightfield_sources) + 1
           THEN \/ Crash
                \/ /\ tpc' = [ tpc EXCEPT ![t] = "setComputed" ]
                   /\ UNCHANGED << titr, bodyRuns, image_sources,
                                   heightfield_sources, _dataProfile,
                                   _profileComputed >>
           ELSE IF profileType(_dataProfile) = UNKNOWN
           THEN /\ _dataProfile' = heightfield_sources[i].profile
                /\ titr' = [ titr EXCEPT ![t] = i + 1 ]
                /\ UNCHANGED << tpc, bodyRuns, image_sources,
                                heightfield_sources, _profileComputed >>
           ELSE IF HeightFieldSourceIncompatible(_dataProfile,
                                                 heightfield_sources[i].profile)
           THEN \/ Crash
                \/ /\ heightfield_sources' = Erase(heightfield_sources, i)
                   /\ UNCHANGED << tpc, titr, bodyRuns, image_sources,
                                   _dataProfile, _profileComputed >>
           ELSE /\ titr' = [ titr EXCEPT ![t] = i + 1 ]
                /\ UNCHANGED << tpc, bodyRuns, image_sources,
                                heightfield_sources, _dataProfile,
                                _profileComputed >>
    /\ ConcUnchanged

\* Line 165-167: _profileComputed = true; return _dataProfile.
SetComputed(t) ==
    /\ tpc[t] = "setComputed"
    /\ _profileComputed' = TRUE
    /\ tpc' = [ tpc EXCEPT ![t] = "returned" ]
    /\ UNCHANGED << titr, bodyRuns, image_sources, heightfield_sources,
                    _dataProfile >>
    /\ ConcUnchanged

\* createNode(key) is entered: the resolver starts to go through the source
\* lists (createValidImage / createValidHeightField on each source).
BeginResolve(t) ==
    /\ tpc[t] = "returned"
    /\ tpc' = [ tpc EXCEPT ![t] = "resolving" ]
    /\ UNCHANGED << titr, bodyRuns, image_sources, heightfield_sources,
                    _dataProfile, _profileComputed >>
    /\ ConcUnchanged

\* createNode returns.
EndResolve(t) ==
    /\ tpc[t] = "resolving"
    /\ tpc' = [ tpc EXCEPT ![t] = "done" ]
    /\ UNCHANGED << titr, bodyRuns, image_sources, heightfield_sources,
                    _dataProfile, _profileComputed >>
    /\ ConcUnchanged

ConcNext ==
    \E t \in Threads :
       \/ EnterGetDataProfile(t)
       \/ ImageTurn(t)
       \/ HeightFieldTurn(t)
       \/ SetComputed(t)
       \/ BeginResolve(t)
       \/ EndResolve(t)

ConcSpec == ConcInit /\ [][ConcNext]_vars

\* C11: in every execution, several threads on one builder included, no two
\* runs of getDataProfile's body overlap, the body runs at most once, and while
\* a resolver reads the source lists the removal of incompatible sources is
\* complete (the flag is set and no thread is inside the body).
C11_ReconciliationIsBarrier ==
    /\ bodyRuns <= 1
    /\ \A t, u \in Threads : ( tpc[t] \in InBody /\ tpc[u] \in InBody ) => t = u
    /\ \A t \in Threads :
          tpc[t] = "resolving" =>
             /\ _profileComputed
             /\ \A u \in Threads : tpc[u] \notin InBody

\* ------------------------------------------------- isCached, order of rules

\* The rules in the order the specification gives them: disabled, cache-only,
\* cache-disabled, coverage, source backing, blacklist, cache presence.
RuleOrder ==
    << "getEnabled", "isCacheOnly", "isCacheDisabled", "mayHaveData",
       "getTileSource", "getBlacklist", "isCached" >>

\* Rule k settles layer l (the last rule, cache presence, always does).
RuleApplies(l, k) ==
    CASE k = 1 -> ~l.enabled
      [] k = 2 -> l.policy = "cacheOnly"
      [] k = 3 -> l.policy = "noCache"
      [] k = 4 -> ~l.mayHaveData
      [] k = 5 -> l.source = "absent"
      [] k = 6 -> l.source = "blacklisted"
      [] OTHER -> TRUE

FirstRule(l) ==
    CHOOSE k \in 1..Len(RuleOrder) :
        /\ RuleApplies(l, k)
        /\ \A j \in 1..(k - 1) : ~RuleApplies(l, j)

\* What the call asked of layer i, in the order it asked.
ChecksOf(i) ==
    LET es == SelectSeq(consulted, LAMBDA e : e.layer = i)
    IN  [ k \in 1..Len(es) |-> es[k].check ]

Examined(i) == \E k \in 1..Len(consulted) : consulted[k].layer = i

ForcedBefore(i) == \E j \in 1..(i - 1) : ForcesFalse(_layers[j])

\* C12: in one isCached evaluation that reaches the layers, (a) the layers are
\* gone through in order and each terrain layer reached is asked the rules in
\* the order disabled, cache-only, cache-disabled, coverage, source backing,
\* blacklist, cache presence, up to the first rule that applies and no further;
\* (b) layer->isCached is asked only of a layer that is enabled, has the normal
\* policy, may have data at the key and has a live source that does not
\* blacklist the key; (c) an enabled cache-disabled layer that is reached makes
\* the result false without its coverage being asked; (d) no layer behind one
\* that forced false is asked anything.
C12_RulesInOrderFirstWins ==
    ( Returned /\ mapState # "nocache" ) =>
        /\ \A k \in 1..(Len(consulted) - 1) :
              consulted[k].layer <= consulted[k + 1].layer
        /\ \A i \in 1..Len(_layers) :
              ( _layers[i].terrain /\ ~ForcedBefore(i) ) =>
                 ChecksOf(i) = SubSeq(RuleOrder, 1, FirstRule(_layers[i]))
        /\ \A k \in 1..Len(consulted) :
              consulted[k].check = "isCached" =>
                 LET l == _layers[consulted[k].layer]
                 IN  /\ l.terrain /\ l.enabled /\ l.policy = "normal"
                     /\ l.mayHaveData /\ l.source = "live"
        /\ \A i \in 1..Len(_layers) :
              ( Examined(i) /\ _layers[i].enabled /\ _layers[i].policy = "noCache" )
              => /\ cachedResult = "false"
                 /\ \A k \in 1..Len(ChecksOf(i)) : ChecksOf(i)[k] # "mayHaveData"
        /\ \A i \in 1..Len(_layers) : Examined(i) => ~ForcedBefore(i)

\* C12 witness: a map with a cache; the first layer went through all seven
\* rules and was found cached, the second is enabled, cache-disabled and cannot
\* have data at the key, and the call has returned false after ten questions.
C12_Witness ==
    /\ cachedResult = "false"
    /\ mapState = "cache"
    /\ Len(_layers) = 2
    /\ ChecksOf(1) = RuleOrder
    /\ _layers[1].cached
    /\ _layers[2].terrain /\ _layers[2].enabled
    /\ _layers[2].policy = "noCache" /\ ~_layers[2].mayHaveData
    /\ Len(consulted) = 10

\* ====================================================== MapFrame life cycle
\* ------------------------------------------------------------- the map side

\* The layers a map can be given: image and elevation layers are terrain
\* layers and carry the min-level option; a model layer is no TerrainLayer.
MapLayerOptions ==
    [ kind : { "image", "elevation" }, minLevel : 0..1 ]
       \cup { [ kind |-> "model", minLevel |-> 0 ] }

IsTerrainLayer(l) == l.kind \in { "image", "elevation" }

IsElevationLayer(l) == l.kind = "elevation"

\* Map::sync(frame): when the frame is behind the map's revision or was never
\* initialized, the map copies its layers and revision into the frame and
\* reports a change.
MapSync(m, f) ==
    IF f._mapDataModelRevision # m.rev \/ ~f._initialized
    THEN [ frame   |-> [ f EXCEPT !._layers = m.layers,
                                  !._initialized = TRUE,
                                  !._mapDataModelRevision = m.rev ],
           changed |-> TRUE ]
    ELSE [ frame |-> f, changed |-> FALSE ]

\* ----------------------------------------------------------- the frame side

RECURSIVE HighestMinLevel(_, _, _)
HighestMinLevel(ls, i, h) ==
    IF i > Len(ls) THEN h
    ELSE IF IsTerrainLayer(ls[i]) /\ ls[i].minLevel > h
         THEN HighestMinLevel(ls, i + 1, ls[i].minLevel)
    ELSE HighestMinLevel(ls, i + 1, h)

\* MapFrame::refreshComputedValues()
refreshComputedValues(f) ==
    [ f EXCEPT !._highestMinLevel = HighestMinLevel(f._layers, 1, 0),
               !._elevationLayers = SelectSeq(f._layers, IsElevationLayer) ]

\* _map.lock(map) succeeds: the frame refers to the map and the map lives.
Locks(f, m) == f._map = "map" /\ m.alive

\* MapFrame::sync()
sync(f, m) ==
    IF Locks(f, m)
    THEN LET r == MapSync(m, f)
             g == IF r.changed THEN refreshComputedValues(r.frame) ELSE r.frame
         IN  [ g EXCEPT !._pool = "pool" ]
    ELSE [ f EXCEPT !._layers = << >>, !._elevationLayers = << >> ]

\* MapFrame::MapFrame(); r stands for the value _mapDataModelRevision, which
\* the constructor does not set, happens to have.
DefaultFrame(r) ==
    [ _initialized |-> FALSE, _map |-> "null", _mapInfo |-> "null",
      _highestMinLevel |-> 0, _mapDataModelRevision |-> r,
      _layers |-> << >>, _elevationLayers |-> << >>, _pool |-> "null" ]

\* MapFrame::MapFrame(const Map* map)
MapFrameOf(m, r) ==
    sync([ DefaultFrame(r) EXCEPT !._map = "map", !._mapInfo = "map" ], m)

\* MapFrame::MapFrame(const MapFrame& rhs)
CopyFrame(rhs) ==
    [ _initialized |-> rhs._initialized, _map |-> rhs._map,
      _mapInfo |-> rhs._mapInfo, _highestMinLevel |-> rhs._highestMinLevel,
      _mapDataModelRevision |-> rhs._mapDataModelRevision,
      _layers |-> rhs._layers, _elevationLayers |-> << >>,
      _pool |-> rhs._pool ]

\* MapFrame::setMap(map), p being "null" for setMap(0)
setMap(f, p, m) ==
    LET g == [ f EXCEPT !._layers = << >>, !._pool = "null", !._map = p,
                        !._mapInfo = IF p = "map" THEN "map" ELSE @,
                        !._initialized = FALSE, !._highestMinLevel = 0 ]
    IN  IF p = "map" THEN sync(g, m) ELSE g

\* MapFrame::release()
release(f) ==
    [ f EXCEPT !._layers = << >>, !._pool = "null", !._initialized = FALSE,
               !._highestMinLevel = 0 ]

\* ---------------------------------------------------------------- FrameSpec

FrameInit ==
    /\ fpc = "run"
    /\ theMap = [ alive |-> TRUE, layers |-> << >>, rev |-> 0 ]
    /\ frames = << >>
    /\ CacheIdle
    /\ ProfileIdle
    /\ WalkIdle
    /\ ConcIdle

FrameUnchanged ==
    /\ UNCHANGED fpc
    /\ UNCHANGED cacheVars
    /\ UNCHANGED profileVars
    /\ UNCHANGED walkVars
    /\ UNCHANGED concVars

\* The application adds a layer to the map; the map's revision goes up.
MapAddLayer ==
    /\ fpc = "run" /\ theMap.alive
    /\ theMap.rev < MaxRevision
    /\ Len(theMap.layers) < MaxMapLayers
    /\ \E o \in MapLayerOptions :
          theMap' = [ theMap EXCEPT
                        !.layers = Append(@, [ uid |-> theMap.rev + 1,
                                               kind |-> o.kind,
                                               minLevel |-> o.minLevel ]),
                        !.rev = @ + 1 ]
    /\ UNCHANGED frames
    /\ FrameUnchanged

\* The application removes a layer from the map.
MapRemoveLayer ==
    /\ fpc = "run" /\ theMap.alive
    /\ theMap.rev < MaxRevision
    /\ \E i \in 1..Len(theMap.layers) :
          theMap' = [ theMap EXCEPT !.layers = Erase(@, i), !.rev = @ + 1 ]
    /\ UNCHANGED frames
    /\ FrameUnchanged

\* The last reference to the map goes away; the frames' observers go stale.
MapDestroy ==
    /\ fpc = "run" /\ theMap.alive
    /\ theMap' = [ theMap EXCEPT !.alive = FALSE ]
    /\ UNCHANGED frames
    /\ FrameUnchanged

NewFrame(f) ==
    /\ fpc = "run"
    /\ Len(frames) < MaxFrames
    /\ frames' = Append(frames, f)
    /\ UNCHANGED theMap
    /\ FrameUnchanged

ConstructDefault ==
    /\ fpc = "run"
    /\ \E r \in 0..MaxRevision : NewFrame(DefaultFrame(r))

ConstructOnMap ==
    /\ theMap.alive
    /\ \E r \in 0..MaxRevision : NewFrame(MapFrameOf(theMap, r))

ConstructCopy == \E i \in 1..Len(frames) : NewFrame(CopyFrame(frames[i]))

OnFrame(i, f) ==
    /\ fpc = "run"
    /\ frames' = [ frames EXCEPT ![i] = f ]
    /\ UNCHANGED theMap
    /\ FrameUnchanged

SetMapCall ==
    \E i \in 1..Len(frames) :
       \/ OnFrame(i, setMap(frames[i], "null", theMap))
       \/ theMap.alive /\ OnFrame(i, setMap(frames[i], "map", theMap))

SyncCall == \E i \in 1..Len(frames) : OnFrame(i, sync(frames[i], theMap))

ReleaseCall == \E i \in 1..Len(frames) : OnFrame(i, release(frames[i]))

FrameNext ==
    \/ MapAddLayer
    \/ MapRemoveLayer
    \/ MapDestroy
    \/ ConstructDefault
    \/ ConstructOnMap
    \/ ConstructCopy
    \/ SetMapCall
    \/ SyncCall
    \/ ReleaseCall

FrameSpec == FrameInit /\ [][FrameNext]_vars

\* C13: after any sequence of construction, copy construction, setMap, sync
\* and release, every frame's elevation-layer list holds exactly the elevation
\* layers of the frame's layer list, in the same order.
C13_ElevationListMatchesLayers ==
    \A i \in 1..Len(frames) :
       frames[i]._elevationLayers =
          SelectSeq(frames[i]._layers, IsElevationLayer)

\* ------------------------------------------------------------- all parts

Init == CacheInit \/ ProfileInit \/ WalkInit \/ ConcInit \/ FrameInit

Next == CacheNext \/ ProfileNext \/ WalkNext \/ ConcNext \/ FrameNext

Spec == Init /\ [][Next]_vars

====
